---- MODULE Spec2Model ----
(***************************************************************************)
(* Model of the ASTM E900 physics baseline: the formula evaluator          *)
(* astm_e900_15 (src/src/astm/formula.py) and the baseline driver main     *)
(* (src/main.py).                                                          *)
(*                                                                         *)
(* Floating point numbers are modelled as decimal floating point values    *)
(* with a four digit mantissa, m * 10^e, plus the IEEE-754 special values  *)
(* NaN, +inf and -inf, with the IEEE rules numpy follows (a division by    *)
(* zero, a logarithm of zero or a power of a negative number is a warning  *)
(* and a special value, never an exception).  Signed zeros are not         *)
(* distinguished.  The transcendental functions are tabulated at the       *)
(* arguments the sample inputs produce.                                    *)
(***************************************************************************)
EXTENDS Integers, Sequences, FiniteSets, TLC

(***************************************************************************)
(* Bound of the model: the largest number of rows of the input file.       *)
(***************************************************************************)
MaxRows == 2

(***************************************************************************)
(* Decimal floating point.                                                 *)
(***************************************************************************)
NaN == [k |-> "nan", m |-> 0, e |-> 0]
PosInf == [k |-> "inf", m |-> 1, e |-> 0]
NegInf == [k |-> "inf", m |-> -1, e |-> 0]
Zero == [k |-> "fin", m |-> 0, e |-> 0]
\* A cell of the file that is not a number (a word in a numeric column).
Text == [k |-> "text", m |-> 0, e |-> 0]
\* A cell of a column the file does not have.
Absent == [k |-> "absent", m |-> 0, e |-> 0]
\* A local variable that has not been assigned yet.
None == [k |-> "none", m |-> 0, e |-> 0]

Abs(n) == IF n < 0 THEN -n ELSE n
Sign(n) == IF n < 0 THEN -1 ELSE 1

\* The value m * 10^e rounded to four significant digits; beyond the range
\* of a double it overflows to an infinity or underflows to zero.
RECURSIVE Norm(_, _)
Norm(m, e) ==
    IF m = 0 THEN Zero
    ELSE IF Abs(m) >= 10000 THEN Norm(Sign(m) * ((Abs(m) + 5) \div 10), e + 1)
    ELSE IF Abs(m) < 1000 THEN Norm(m * 10, e - 1)
    ELSE IF e > 305 THEN (IF m > 0 THEN PosInf ELSE NegInf)
    ELSE IF e < -327 THEN Zero
    ELSE [k |-> "fin", m |-> m, e |-> e]

IsNaN(a) == a.k = "nan"
IsInf(a) == a.k = "inf"
IsFin(a) == a.k = "fin"
IsZero(a) == a.k = "fin" /\ a.m = 0

Neg(a) == IF IsNaN(a) THEN NaN ELSE [a EXCEPT !.m = -a.m]

Add(a, b) ==
    IF IsNaN(a) \/ IsNaN(b) THEN NaN
    ELSE IF IsInf(a) /\ IsInf(b) THEN (IF a.m = b.m THEN a ELSE NaN)
    ELSE IF IsInf(a) THEN a
    ELSE IF IsInf(b) THEN b
    ELSE IF a.m = 0 THEN b
    ELSE IF b.m = 0 THEN a
    ELSE IF a.e >= b.e
         THEN (IF a.e - b.e > 4 THEN a
               ELSE Norm(a.m * (10 ^ (a.e - b.e)) + b.m, b.e))
         ELSE (IF b.e - a.e > 4 THEN b
               ELSE Norm(b.m * (10 ^ (b.e - a.e)) + a.m, a.e))

Sub(a, b) == Add(a, Neg(b))

Mul(a, b) ==
    IF IsNaN(a) \/ IsNaN(b) THEN NaN
    ELSE IF IsInf(a) \/ IsInf(b)
         THEN (IF IsZero(a) \/ IsZero(b) THEN NaN
               ELSE IF Sign(a.m) * Sign(b.m) > 0 THEN PosInf ELSE NegInf)
    ELSE Norm(a.m * b.m, a.e + b.e)

Div(a, b) ==
    IF IsNaN(a) \/ IsNaN(b) THEN NaN
    ELSE IF IsInf(a)
         THEN (IF IsInf(b) THEN NaN
               ELSE IF Sign(a.m) * Sign(b.m) > 0 THEN PosInf ELSE NegInf)
    ELSE IF IsInf(b) THEN Zero
    ELSE IF b.m = 0
         THEN (IF a.m = 0 THEN NaN ELSE IF a.m > 0 THEN PosInf ELSE NegInf)
    ELSE Norm(Sign(a.m) * Sign(b.m) * ((Abs(a.m) * 10000) \div Abs(b.m)),
              a.e - b.e - 4)

\* a < b; every comparison with a NaN is false.
Lt(a, b) ==
    IF IsNaN(a) \/ IsNaN(b) THEN FALSE
    ELSE IF a = b THEN FALSE
    ELSE IF IsInf(a) THEN a.m < 0
    ELSE IF IsInf(b) THEN b.m > 0
    ELSE Sub(a, b).m < 0

Le(a, b) == Lt(a, b) \/ (~IsNaN(a) /\ a = b)

RECURSIVE ISqrtIn(_, _, _)
ISqrtIn(n, lo, hi) ==
    IF lo >= hi THEN lo
    ELSE LET mid == (lo + hi + 1) \div 2
         IN IF mid * mid <= n THEN ISqrtIn(n, mid, hi) ELSE ISqrtIn(n, lo, mid - 1)

\* The integer square root.
ISqrt(n) == ISqrtIn(n, 0, 46340)

\* np.sqrt of a finite value; of a negative one it is NaN.
Sqrt(a) ==
    IF IsNaN(a) THEN NaN
    ELSE IF IsInf(a) THEN (IF a.m > 0 THEN PosInf ELSE NaN)
    ELSE IF a.m < 0 THEN NaN
    ELSE IF a.e % 2 = 0 THEN Norm(ISqrt(a.m * 10000), (a.e - 4) \div 2)
    ELSE Norm(ISqrt(a.m * 100000), (a.e - 5) \div 2)

\* np.maximum: a NaN operand gives NaN.
Maximum(a, b) ==
    IF IsNaN(a) \/ IsNaN(b) THEN NaN
    ELSE IF Lt(a, b) THEN b ELSE a

\* np.exp: overflows to +inf above 709.78 and underflows to zero below -745.
Exp(x) ==
    IF IsNaN(x) THEN NaN
    ELSE IF IsInf(x) THEN (IF x.m > 0 THEN PosInf ELSE Zero)
    ELSE IF Lt(Norm(7097, -1), x) THEN PosInf
    ELSE IF Lt(x, Norm(-7450, -1)) THEN Zero
    ELSE CASE x = Norm(2042, -2) -> Norm(7384, 5)

\* np.log10: -inf at zero and NaN below zero, each with a warning only.
Log10(x) ==
    IF IsNaN(x) THEN NaN
    ELSE IF IsInf(x) THEN (IF x.m > 0 THEN PosInf ELSE NaN)
    ELSE IF x.m = 0 THEN NegInf
    ELSE IF x.m < 0 THEN NaN
    ELSE CASE x = Norm(5000, 16) -> Norm(1970, -2)

\* np.tanh.
Tanh(x) ==
    IF IsNaN(x) THEN NaN
    ELSE IF IsInf(x) THEN (IF x.m > 0 THEN Norm(1, 0) ELSE Norm(-1, 0))
    ELSE IF x.m = 0 THEN Zero
    ELSE CASE x = Norm(1388, -3) -> Norm(8827, -4)

\* x ** q for a positive exponent q that is not an integer: zero at zero and
\* NaN below zero, with a warning only.
Pow(x, q) ==
    IF IsNaN(x) THEN NaN
    ELSE IF IsInf(x) THEN PosInf
    ELSE IF x.m = 0 THEN Zero
    ELSE IF x.m < 0 THEN NaN
    ELSE CASE x = Norm(5000, 16) /\ q = Norm(5076, -4) -> Norm(9982, 6)
           [] x = Norm(2800, -5) /\ q = Norm(5770, -4) -> Norm(1271, -4)
           [] x = Norm(5000, -4) /\ q = Norm(1173, -3) -> Norm(4435, -4)

(***************************************************************************)
(* The formula evaluator, astm_e900_15, element by element.                *)
(***************************************************************************)
\* np.array(product_form, dtype=str): a missing label becomes the word nan.
PfMissing == "<NA>"
StrOf(label) == IF label = PfMissing THEN "nan" ELSE label

T_f(temp_c) == Add(Mul(temp_c, Norm(18, -1)), Norm(32, 0))
T_R(temp_c) == Add(T_f(temp_c), Norm(46067, -2))

\* np.where(product_form == 'W', 6.7e-18, 6.7e-18)
A_coeff(product_form) ==
    IF product_form = "W" THEN Norm(67, -19) ELSE Norm(67, -19)

term_A(temp_c, fluence, product_form) ==
    Mul(Mul(A_coeff(product_form), Exp(Div(Norm(20730, 0), T_R(temp_c)))),
        Pow(fluence, Norm(5076, -4)))

G(fluence) ==
    Add(Norm(5, -1),
        Mul(Norm(5, -1),
            Tanh(Div(Sub(Log10(fluence), Norm(1824, -2)), Norm(1052, -3)))))

\* F without the floor at zero.
F_unclamped(cu) == Pow(Sub(cu, Norm(72, -3)), Norm(577, -3))

F(cu) == Pow(Maximum(Sub(cu, Norm(72, -3)), Zero), Norm(577, -3))

\* np.where(product_form == 'W', 234, 128)
B_coeff(product_form) ==
    IF product_form = "W" THEN Norm(234, 0) ELSE Norm(128, 0)

term_B(cu, ni, fluence, product_form) ==
    Mul(Mul(Mul(B_coeff(product_form),
                Add(Norm(1, 0), Mul(Norm(2106, -3), Pow(ni, Norm(1173, -3))))),
            F(cu)),
        G(fluence))

tts_fahrenheit(cu, ni, temp_c, fluence, product_form) ==
    Add(term_A(temp_c, fluence, product_form),
        term_B(cu, ni, fluence, product_form))

tts_celsius(cu, ni, temp_c, fluence, product_form) ==
    Div(tts_fahrenheit(cu, ni, temp_c, fluence, product_form), Norm(18, -1))

\* np.array(x, dtype=float) raises ValueError when an entry is not a number.
HasText(xs) == \E i \in 1..Len(xs) : xs[i].k = "text"

NonPositive(xs) == \E i \in 1..Len(xs) : Le(xs[i], Zero)

\* The evaluator with a logarithm that raises outside its domain (math.log10).
astm_e900_15_math_log(cu, ni, p, mn, temp_c, fluence, product_form) ==
    IF HasText(cu) \/ HasText(ni) \/ HasText(p) \/ HasText(mn)
       \/ HasText(temp_c) \/ HasText(fluence)
    THEN [raised |-> TRUE, exc |-> "ValueError: could not convert string to float",
          value |-> <<>>]
    ELSE IF NonPositive(fluence)
    THEN [raised |-> TRUE, exc |-> "ValueError: math domain error", value |-> <<>>]
    ELSE [raised |-> FALSE, exc |-> "",
          value |-> [i \in 1..Len(cu) |->
                       tts_celsius(cu[i], ni[i], temp_c[i], fluence[i],
                                   StrOf(product_form[i]))]]

RECURSIVE FiniteOnly(_)
FiniteOnly(xs) ==
    IF xs = <<>> THEN <<>>
    ELSE IF IsFin(Head(xs)) THEN <<Head(xs)>> \o FiniteOnly(Tail(xs))
    ELSE FiniteOnly(Tail(xs))

\* The evaluator returning only the shifts that are finite.
astm_e900_15_finite_only(cu, ni, p, mn, temp_c, fluence, product_form) ==
    IF HasText(cu) \/ HasText(ni) \/ HasText(p) \/ HasText(mn)
       \/ HasText(temp_c) \/ HasText(fluence)
    THEN [raised |-> TRUE, exc |-> "ValueError: could not convert string to float",
          value |-> <<>>]
    ELSE [raised |-> FALSE, exc |-> "",
          value |-> FiniteOnly([i \in 1..Len(cu) |->
                       tts_celsius(cu[i], ni[i], temp_c[i], fluence[i],
                                   StrOf(product_form[i]))])]

\* The call: either the exception it raises or the array it returns.
astm_e900_15(cu, ni, p, mn, temp_c, fluence, product_form) ==
    IF HasText(cu) \/ HasText(ni) \/ HasText(p) \/ HasText(mn)
       \/ HasText(temp_c) \/ HasText(fluence)
    THEN [raised |-> TRUE, exc |-> "ValueError: could not convert string to float",
          value |-> <<>>]
    ELSE [raised |-> FALSE, exc |-> "",
          value |-> [i \in 1..Len(cu) |->
                       tts_celsius(cu[i], ni[i], temp_c[i], fluence[i],
                                   StrOf(product_form[i]))]]

(***************************************************************************)
(* The input file data/df_plotter_cm2.csv.  A file that exists has the     *)
(* seven columns the driver indexes and may have the column Mn; a cell is  *)
(* a number, a word or empty.                                              *)
(***************************************************************************)
\* An empty cell of the file.
Empty == [k |-> "empty", m |-> 0, e |-> 0]

Row(y, fl, cu, ni, p, t, pf, mn) ==
    [DT41J_Celsius |-> y, Fluence_n_cm2 |-> fl, Cu |-> cu, Ni |-> ni, P |-> p,
     Temperature_Celsius |-> t, Product_Form |-> pf, Mn |-> mn]

BaseRow ==
    Row(Norm(45, 0), Norm(5, 19), Norm(10, -2), Norm(5, -1), Norm(1, -2),
        Norm(290, 0), "P", Norm(125, -2))

\* The sample rows: the base row and rows that differ from it in the cells
\* the evaluator and the driver treat differently.
SampleRows ==
    { BaseRow,
      [BaseRow EXCEPT !.DT41J_Celsius = Norm(15, 0)],
      [BaseRow EXCEPT !.DT41J_Celsius = Empty],
      [BaseRow EXCEPT !.Fluence_n_cm2 = Zero, !.DT41J_Celsius = Norm(15, 0)],
      [BaseRow EXCEPT !.Fluence_n_cm2 = Norm(-5, 19)],
      [BaseRow EXCEPT !.Fluence_n_cm2 = Empty],
      [BaseRow EXCEPT !.Cu = Zero],
      [BaseRow EXCEPT !.Cu = Norm(72, -3), !.Product_Form = "W"],
      [BaseRow EXCEPT !.Ni = Norm(-5, -1)],
      [BaseRow EXCEPT !.P = Empty],
      [BaseRow EXCEPT !.P = Text],
      [BaseRow EXCEPT !.Temperature_Celsius = Norm(-260, 0),
                      !.Fluence_n_cm2 = Zero],
      [BaseRow EXCEPT !.Product_Form = "W"],
      [BaseRow EXCEPT !.Product_Form = "F"],
      [BaseRow EXCEPT !.Product_Form = "X"],
      [BaseRow EXCEPT !.Product_Form = ""] }

Tables == UNION { [1..n -> SampleRows] : n \in 0..MaxRows }

WithoutMn(rows) == [i \in 1..Len(rows) |-> [rows[i] EXCEPT !.Mn = Absent]]

NoFile == [exists |-> FALSE, hasMn |-> FALSE, rows |-> <<>>]

Files ==
    {NoFile}
    \cup { [exists |-> TRUE, hasMn |-> TRUE, rows |-> t] : t \in Tables }
    \cup { [exists |-> TRUE, hasMn |-> FALSE, rows |-> WithoutMn(t)] : t \in Tables }

(***************************************************************************)
(* pandas and scikit-learn, as the driver uses them.                       *)
(***************************************************************************)
RequiredColumns ==
    {"DT41J_Celsius", "Fluence_n_cm2", "Cu", "Ni", "P", "Temperature_Celsius",
     "Product_Form"}

\* An empty cell is read as NaN.
ReadCell(c) == IF c = Empty THEN NaN ELSE c
ReadLabel(c) == IF c = "" THEN PfMissing ELSE c

\* pd.read_csv
read_csv(f) ==
    [cols |-> RequiredColumns \cup (IF f.hasMn THEN {"Mn"} ELSE {}),
     rows |-> [i \in 1..Len(f.rows) |->
                 [DT41J_Celsius |-> ReadCell(f.rows[i].DT41J_Celsius),
                  Fluence_n_cm2 |-> ReadCell(f.rows[i].Fluence_n_cm2),
                  Cu |-> ReadCell(f.rows[i].Cu),
                  Ni |-> ReadCell(f.rows[i].Ni),
                  P |-> ReadCell(f.rows[i].P),
                  Temperature_Celsius |-> ReadCell(f.rows[i].Temperature_Celsius),
                  Product_Form |-> ReadLabel(f.rows[i].Product_Form),
                  Mn |-> ReadCell(f.rows[i].Mn)]],
     Pred_ASTM |-> <<>>]

\* The columns main hands to dropna.
DropnaSubset ==
    {"DT41J_Celsius", "Fluence_n_cm2", "Cu", "Ni", "Temperature_Celsius"}

\* The value of a row in a numeric column.
Cell(row, col) ==
    CASE col = "DT41J_Celsius" -> row.DT41J_Celsius
      [] col = "Fluence_n_cm2" -> row.Fluence_n_cm2
      [] col = "Cu" -> row.Cu
      [] col = "Ni" -> row.Ni
      [] col = "P" -> row.P
      [] col = "Temperature_Celsius" -> row.Temperature_Celsius
      [] col = "Mn" -> row.Mn

\* Whether a row has a missing value in a column.
IsNull(row, col) ==
    IF col = "Product_Form" THEN row.Product_Form = PfMissing
    ELSE IsNaN(Cell(row, col))

RECURSIVE FilterRows(_, _)
FilterRows(rows, subset) ==
    IF rows = <<>> THEN <<>>
    ELSE IF \E col \in subset : IsNull(Head(rows), col)
         THEN FilterRows(Tail(rows), subset)
         ELSE <<Head(rows)>> \o FilterRows(Tail(rows), subset)

\* df.dropna(subset=...)
dropna(d, subset) == [d EXCEPT !.rows = FilterRows(d.rows, subset)]

\* df[col].values
Column(d, col) == [i \in 1..Len(d.rows) |-> Cell(d.rows[i], col)]
LabelColumn(d) == [i \in 1..Len(d.rows) |-> d.rows[i].Product_Form]

\* np.full(n, v)
Full(n, v) == [i \in 1..n |-> v]

RECURSIVE SumSq(_, _, _)
SumSq(a, b, i) ==
    IF i = 0 THEN Zero
    ELSE Add(SumSq(a, b, i - 1), Mul(Sub(a[i], b[i]), Sub(a[i], b[i])))

NotFinite(xs) == \E i \in 1..Len(xs) : ~IsFin(xs[i])

\* sklearn.metrics.mean_squared_error: rejects an empty input and an input
\* with a NaN or an infinity by raising ValueError.
mean_squared_error(y_true, y_pred) ==
    IF Len(y_true) = 0
    THEN [raised |-> TRUE, exc |-> "ValueError: Found array with 0 sample(s)",
          value |-> None]
    ELSE IF NotFinite(y_true) \/ NotFinite(y_pred)
    THEN [raised |-> TRUE, exc |-> "ValueError: Input contains NaN or infinity",
          value |-> None]
    ELSE [raised |-> FALSE, exc |-> "",
          value |-> Div(SumSq(y_true, y_pred, Len(y_true)), Norm(Len(y_true), 0))]

(***************************************************************************)
(* The baseline driver, main.                                              *)
(***************************************************************************)
VARIABLES
    file,          \* the input file, or NoFile
    pc,            \* the statement main is at
    df,            \* the DataFrame
    mn_values,     \* the manganese argument
    preds_fisica,  \* what the evaluator returned
    rmse,          \* the error metric
    exc,           \* the text of the exception caught
    out,           \* the lines printed to standard output
    calls          \* the functions called so far, in order

vars == <<file, pc, df, mn_values, preds_fisica, rmse, exc, out, calls>>

NoDf == [cols |-> {}, rows |-> <<>>, Pred_ASTM |-> <<>>]

Line(text) == [line |-> text, arg |-> ""]

MsgInicio == Line("--- INICIO DEL PROYECTO TFM: Fragilizacion de Vasijas ---")
MsgNoFile == Line("ERROR: No encuentro el archivo en data/df_plotter_cm2.csv")
MsgCargando == Line("Cargando datos desde: data/df_plotter_cm2.csv")
MsgCalculando == Line("Calculando predicciones usando norma ASTM E900-15...")
MsgAvisoMn == Line("AVISO: Columna 'Mn' no encontrada. Usando promedio 1.40%")
MsgSep == Line("------------------------------")
MsgResultado == Line("RESULTADO BASELINE (FISICA PURA):")
\* The line carries the value of rmse, which the model keeps in the variable.
MsgRmse == Line("RMSE: {rmse:.4f} C")
MsgExito1 == Line(">> EXITO! La formula fisica funciona correctamente (Error < 15 C).")
MsgExito2 == Line(">> Tu objetivo con la Red Neuronal sera bajar de este numero.")
MsgOjo == Line(">> OJO: El error es alto. Verifica las unidades (Fahrenheit vs Celsius?)")
MsgCritico(e) == [line |-> "ERROR CRITICO AL CALCULAR FORMULA:", arg |-> e]

\* The manganese value used when the file has no column Mn.
MnFallback == Norm(140, -2)
\* The verdict threshold.
RmseThreshold == Norm(150, -1)

Init ==
    /\ file \in Files
    /\ pc = "start"
    /\ df = NoDf
    /\ mn_values = <<>>
    /\ preds_fisica = <<>>
    /\ rmse = None
    /\ exc = ""
    /\ out = <<>>
    /\ calls = <<>>

\* main.py line 21
PrintInicio ==
    /\ pc = "start"
    /\ out' = Append(out, MsgInicio)
    /\ pc' = "check_path"
    /\ UNCHANGED <<file, df, mn_values, preds_fisica, rmse, exc, calls>>

\* The missing file reported without the return: main goes on to read it.
FileNotFoundNoReturn ==
    /\ pc = "check_path"
    /\ ~file.exists
    /\ out' = out \o <<MsgNoFile, MsgCargando>>
    /\ calls' = Append(calls, "read_csv")
    /\ pc' = "done"
    /\ UNCHANGED <<file, df, mn_values, preds_fisica, rmse, exc>>

\* lines 24-27: the file does not exist
FileNotFound ==
    /\ pc = "check_path"
    /\ ~file.exists
    /\ out' = Append(out, MsgNoFile)
    /\ pc' = "done"
    /\ UNCHANGED <<file, df, mn_values, preds_fisica, rmse, exc, calls>>

\* lines 29-30
LoadCsv ==
    /\ pc = "check_path"
    /\ file.exists
    /\ out' = Append(out, MsgCargando)
    /\ df' = read_csv(file)
    /\ calls' = Append(calls, "read_csv")
    /\ pc' = "dropna"
    /\ UNCHANGED <<file, mn_values, preds_fisica, rmse, exc>>

\* line 33
DropNa ==
    /\ pc = "dropna"
    /\ df' = dropna(df, DropnaSubset)
    /\ calls' = Append(calls, "dropna")
    /\ pc' = "select_mn"
    /\ UNCHANGED <<file, mn_values, preds_fisica, rmse, exc, out>>

\* lines 36, 43-44: the column Mn is there
MnFromDataset ==
    /\ pc = "select_mn"
    /\ "Mn" \in df.cols
    /\ out' = Append(out, MsgCalculando)
    /\ mn_values' = Column(df, "Mn")
    /\ pc' = "evaluate"
    /\ UNCHANGED <<file, df, preds_fisica, rmse, exc, calls>>

\* The fallback sized by the file's rows instead of the filtered rows.
MnDefaultBeforeFilter ==
    /\ pc = "select_mn"
    /\ "Mn" \notin df.cols
    /\ out' = out \o <<MsgCalculando, MsgAvisoMn>>
    /\ mn_values' = Full(Len(file.rows), MnFallback)
    /\ pc' = "evaluate"
    /\ UNCHANGED <<file, df, preds_fisica, rmse, exc, calls>>

\* lines 36, 45-47: the column Mn is not there
MnDefault ==
    /\ pc = "select_mn"
    /\ "Mn" \notin df.cols
    /\ out' = out \o <<MsgCalculando, MsgAvisoMn>>
    /\ mn_values' = Full(Len(df.rows), MnFallback)
    /\ pc' = "evaluate"
    /\ UNCHANGED <<file, df, preds_fisica, rmse, exc, calls>>

\* lines 50-58: the call of the evaluator
Evaluation ==
    astm_e900_15(Column(df, "Cu"), Column(df, "Ni"), Column(df, "P"), mn_values,
                 Column(df, "Temperature_Celsius"), Column(df, "Fluence_n_cm2"),
                 LabelColumn(df))

EvaluateReturns ==
    /\ pc = "evaluate"
    /\ ~Evaluation.raised
    /\ preds_fisica' = Evaluation.value
    /\ calls' = Append(calls, "astm_e900_15")
    /\ pc' = "store"
    /\ UNCHANGED <<file, df, mn_values, rmse, exc, out>>

EvaluateRaises ==
    /\ pc = "evaluate"
    /\ Evaluation.raised
    /\ exc' = Evaluation.exc
    /\ calls' = Append(calls, "astm_e900_15")
    /\ pc' = "except"
    /\ UNCHANGED <<file, df, mn_values, preds_fisica, rmse, out>>

\* line 61
StorePred ==
    /\ pc = "store"
    /\ df' = [df EXCEPT !.cols = @ \cup {"Pred_ASTM"}, !.Pred_ASTM = preds_fisica]
    /\ pc' = "rmse"
    /\ UNCHANGED <<file, mn_values, preds_fisica, rmse, exc, out, calls>>

\* line 64
Mse == mean_squared_error(Column(df, "DT41J_Celsius"), df.Pred_ASTM)

RmseReturns ==
    /\ pc = "rmse"
    /\ ~Mse.raised
    /\ rmse' = Sqrt(Mse.value)
    /\ calls' = Append(calls, "mean_squared_error")
    /\ pc' = "report"
    /\ UNCHANGED <<file, df, mn_values, preds_fisica, exc, out>>

\* The RMSE computation outside the try block: its exception ends main.
RmseRaisesUncaught ==
    /\ pc = "rmse"
    /\ Mse.raised
    /\ exc' = Mse.exc
    /\ calls' = Append(calls, "mean_squared_error")
    /\ pc' = "crashed"
    /\ UNCHANGED <<file, df, mn_values, preds_fisica, rmse, out>>

RmseRaises ==
    /\ pc = "rmse"
    /\ Mse.raised
    /\ exc' = Mse.exc
    /\ calls' = Append(calls, "mean_squared_error")
    /\ pc' = "except"
    /\ UNCHANGED <<file, df, mn_values, preds_fisica, rmse, out>>

\* lines 66-69
PrintResult ==
    /\ pc = "report"
    /\ out' = out \o <<MsgSep, MsgResultado, MsgRmse, MsgSep>>
    /\ pc' = "verdict"
    /\ UNCHANGED <<file, df, mn_values, preds_fisica, rmse, exc, calls>>

\* The comparison with <= in place of <.
BelowOrAtThreshold == Le(rmse, Norm(150, -1))

\* line 71
BelowThreshold == Lt(rmse, RmseThreshold)

\* lines 71-73
VerdictExito ==
    /\ pc = "verdict"
    /\ BelowThreshold
    /\ out' = out \o <<MsgExito1, MsgExito2>>
    /\ pc' = "done"
    /\ UNCHANGED <<file, df, mn_values, preds_fisica, rmse, exc, calls>>

\* lines 74-75
VerdictOjo ==
    /\ pc = "verdict"
    /\ ~BelowThreshold
    /\ out' = Append(out, MsgOjo)
    /\ pc' = "done"
    /\ UNCHANGED <<file, df, mn_values, preds_fisica, rmse, exc, calls>>

\* The verdict after the try block instead of inside it.
ExceptHandlerThenVerdict ==
    /\ pc = "except"
    /\ out' = Append(out, MsgCritico(exc))
    /\ pc' = "verdict"
    /\ UNCHANGED <<file, df, mn_values, preds_fisica, rmse, exc, calls>>

\* lines 77-78
ExceptHandler ==
    /\ pc = "except"
    /\ out' = Append(out, MsgCritico(exc))
    /\ pc' = "done"
    /\ UNCHANGED <<file, df, mn_values, preds_fisica, rmse, exc, calls>>

Next ==
    \/ PrintInicio
    \/ FileNotFound
    \/ LoadCsv
    \/ DropNa
    \/ MnFromDataset
    \/ MnDefault
    \/ EvaluateReturns
    \/ EvaluateRaises
    \/ StorePred
    \/ RmseReturns
    \/ RmseRaises
    \/ PrintResult
    \/ VerdictExito
    \/ VerdictOjo
    \/ ExceptHandler

Spec == Init /\ [][Next]_vars

(***************************************************************************)
(* Properties.                                                             *)
(***************************************************************************)
Printed(msg) == \E i \in 1..Len(out) : out[i] = msg
Called(f) == \E i \in 1..Len(calls) : calls[i] = f
VerdictPrinted == Printed(MsgExito1) \/ Printed(MsgExito2) \/ Printed(MsgOjo)
CriticalPrinted == \E i \in 1..Len(out) : out[i].line = MsgCritico("").line

\* C1: when the input file does not exist, main prints the file-not-found
\* message and returns without an exception; the dataset is never loaded, the
\* evaluator is never called, no RMSE is computed and no verdict is printed.
C1_MissingFileAborts ==
    ~file.exists =>
        /\ pc \in {"start", "check_path", "done"}
        /\ calls = <<>>
        /\ df = NoDf
        /\ preds_fisica = <<>>
        /\ rmse = None
        /\ exc = ""
        /\ ~VerdictPrinted
        /\ ~CriticalPrinted
        /\ pc = "done" => out = <<MsgInicio, MsgNoFile>>

C1_Witness == ~file.exists /\ pc = "done" /\ Printed(MsgNoFile)

\* C2: an exception raised by the evaluator or by the RMSE computation is
\* caught: the critical-error line with the exception's text is printed, no
\* verdict is printed, and main returns.
C2_ExceptionCaught ==
    /\ pc = "evaluate" /\ Evaluation.raised => ENABLED EvaluateRaises
    /\ pc = "rmse" /\ Mse.raised => ENABLED RmseRaises
    /\ exc # "" =>
        /\ pc \in {"except", "done"}
        /\ ~VerdictPrinted
        /\ rmse = None
        /\ pc = "done" => out[Len(out)] = MsgCritico(exc)
    /\ exc = "" => ~CriticalPrinted

C2_Witness ==
    /\ pc = "done"
    /\ exc = "ValueError: could not convert string to float"
    /\ Printed(MsgCritico(exc))

\* C3: after loading, every row with a missing value in one of the seven
\* required columns is dropped and every row with all seven present is kept.
C3_SevenColumnsFiltered ==
    Called("dropna") => df.rows = FilterRows(read_csv(file).rows, RequiredColumns)

\* The coefficients the specification documents.
DocumentedA(product_form) ==
    IF product_form = "W" THEN Norm(919, -3)
    ELSE IF product_form = "F" THEN Norm(1011, -3)
    ELSE Norm(1080, -3)

DocumentedB(product_form) ==
    IF product_form = "W" THEN Norm(968, -3)
    ELSE IF product_form = "F" THEN Norm(738, -3)
    ELSE Norm(819, -3)

\* C4: the evaluator takes A and B from the product form: weld (0.919, 0.968),
\* forging (1.011, 0.738), any other label (1.080, 0.819); so A and B of a
\* weld both differ from those of an unrecognized label.
C4_DocumentedCoefficients ==
    pc = "store" =>
        \A i \in 1..Len(df.rows) :
            LET product_form == StrOf(df.rows[i].Product_Form)
            IN /\ A_coeff(product_form) = DocumentedA(product_form)
               /\ B_coeff(product_form) = DocumentedB(product_form)
               /\ product_form \notin {"W", "P", "F"} =>
                    /\ A_coeff("W") # A_coeff(product_form)
                    /\ B_coeff("W") # B_coeff(product_form)

NegativeFluence(row) == Lt(row.Fluence_n_cm2, Zero)
ZeroFluence(row) == row.Fluence_n_cm2 = Zero
HasNegativeFluence == \E i \in 1..Len(df.rows) : NegativeFluence(df.rows[i])
HasZeroFluence == \E i \in 1..Len(df.rows) : ZeroFluence(df.rows[i])

C6_Verdict ==
    /\ ~(Printed(MsgExito1) /\ Printed(MsgOjo))
    /\ Printed(MsgExito1) <=> Printed(MsgExito2)
    /\ pc = "done" /\ Called("mean_squared_error") /\ exc = "" =>
        /\ Printed(MsgExito1) <=> Lt(rmse, Norm(15, 0))
        /\ Printed(MsgOjo) <=> ~Lt(rmse, Norm(15, 0))
        /\ rmse = Norm(15, 0) => Printed(MsgOjo)

C6_Witness == pc = "done" /\ rmse = Norm(15, 0) /\ Printed(MsgOjo) /\ exc = ""

\* C7: for a specimen with copper at or below the offset (copper zero in
\* particular), positive fluence and non-negative nickel, the copper
\* precipitation term is exactly zero and the predicted shift is the matrix
\* damage term alone, converted to Celsius.
C7_NoCopperNoPrecipitation ==
    pc = "store" =>
        \A i \in 1..Len(df.rows) :
            LET r == df.rows[i]
                product_form == StrOf(r.Product_Form)
            IN (/\ Le(r.Cu, Norm(72, -3))
                /\ Lt(Zero, r.Fluence_n_cm2)
                /\ Le(Zero, r.Ni)) =>
                   /\ term_B(r.Cu, r.Ni, r.Fluence_n_cm2, product_form) = Zero
                   /\ preds_fisica[i]
                        = Div(term_A(r.Temperature_Celsius, r.Fluence_n_cm2,
                                     product_form),
                              Norm(18, -1))

C7_Witness ==
    /\ pc = "store"
    /\ \E i \in 1..Len(df.rows) :
          /\ df.rows[i].Cu = Zero
          /\ Lt(Zero, df.rows[i].Fluence_n_cm2)
          /\ Le(Zero, df.rows[i].Ni)
          /\ Lt(Zero, preds_fisica[i])

\* C8: for aligned inputs of any common length n, n = 0 included, the
\* evaluator returns exactly n shifts, one per specimen in input order, and
\* leaves its inputs as they were.
C8_LengthPreserved ==
    pc = "store" =>
        /\ Len(preds_fisica) = Len(df.rows)
        /\ Len(preds_fisica) = Len(mn_values)
        /\ \A i \in 1..Len(df.rows) :
              LET r == df.rows[i]
              IN preds_fisica[i]
                   = tts_celsius(r.Cu, r.Ni, r.Temperature_Celsius,
                                 r.Fluence_n_cm2, StrOf(r.Product_Form))
        /\ df = dropna(read_csv(file), DropnaSubset)
        /\ mn_values \in {Column(df, "Mn"), Full(Len(df.rows), Norm(140, -2))}

C8_Witness ==
    /\ pc = "store"
    /\ file.rows # <<>>
    /\ df.rows = <<>>
    /\ preds_fisica = <<>>

AfterMnChoice == pc \notin {"start", "check_path", "dropna", "select_mn"}

\* C9: without a column Mn the driver prints the notice, passes 1.40 for
\* every remaining row and goes on to the evaluation; with the column it
\* passes the dataset's own values unchanged and prints no notice.
C9_ManganeseFallback ==
    /\ pc = "select_mn" => ENABLED (MnFromDataset \/ MnDefault)
    /\ file.exists /\ AfterMnChoice =>
        /\ Called("astm_e900_15") \/ pc = "evaluate"
        /\ Len(mn_values) = Len(df.rows)
        /\ ~file.hasMn =>
            /\ Printed(MsgAvisoMn)
            /\ \A i \in 1..Len(mn_values) : mn_values[i] = Norm(140, -2)
        /\ file.hasMn =>
            /\ ~Printed(MsgAvisoMn)
            /\ \A i \in 1..Len(mn_values) : mn_values[i] = df.rows[i].Mn
            /\ \A i \in 1..Len(mn_values) :
                  \E j \in 1..Len(file.rows) : mn_values[i] = file.rows[j].Mn
    /\ ~AfterMnChoice => ~Printed(MsgAvisoMn)

C9_Witness ==
    /\ pc = "evaluate"
    /\ ~file.hasMn
    /\ Printed(MsgAvisoMn)
    /\ Len(mn_values) > 0
    /\ Len(df.rows) < Len(file.rows)

CallOrder == <<"read_csv", "dropna", "astm_e900_15", "mean_squared_error">>

\* The position of a statement in main: every step moves forward.
Rank(label) ==
    CASE label = "start" -> 0
      [] label = "check_path" -> 1
      [] label = "dropna" -> 2
      [] label = "select_mn" -> 3
      [] label = "evaluate" -> 4
      [] label = "store" -> 5
      [] label = "rmse" -> 6
      [] label = "report" -> 7
      [] label = "verdict" -> 8
      [] label = "except" -> 8
      [] label = "done" -> 9

RunOrder ==
    /\ Len(calls) <= Len(CallOrder)
    /\ calls = SubSeq(CallOrder, 1, Len(calls))
    /\ Called("read_csv") => file.exists /\ Printed(MsgCargando)
    /\ VerdictPrinted => calls = CallOrder /\ exc = "" /\ rmse # None
    /\ Printed(MsgRmse) => calls = CallOrder /\ exc = "" /\ rmse # None
    /\ pc = "done" => ~ENABLED Next

\* C10: a run goes file check, load, row filter, evaluation, RMSE, verdict and
\* ends: load and evaluation happen at most once, the evaluation only after
\* load and filter, and a verdict only after evaluation and RMSE both
\* completed without an error; no statement is gone back to, so the run ends
\* after at most nine steps.
C10_RunOrder == [](RunOrder) /\ [][Rank(pc') > Rank(pc)]_vars

C10_Witness == pc = "done" /\ Printed(MsgExito1) /\ calls = CallOrder

====
